---- MODULE Spec2Model ----
(***************************************************************************)
(* A model of the two scripts of elife-iiif-deviation-checker:             *)
(*   eom-viewer.py     sorts the files found under image-cache/ by the key *)
(*                     of sorter() and writes numbered symlinks;           *)
(*   report-parser.py  prints the article ids of the log lines whose pae   *)
(*                     passes a threshold.                                 *)
(* Strings are sequences of one-character strings, so that startswith,     *)
(* split, join and the ordering of keys are computed character by          *)
(* character, the way Python computes them.                                *)
(***************************************************************************)
EXTENDS Integers, Sequences, FiniteSets, TLC

VARIABLES
    v,        \* sorter harness: the argument of sorter
    ret,      \* sorter harness: the outcome of sorter(v)
    spc,      \* sorter harness: "call" before the call, "returned" after it
    out,      \* eom-viewer: the bytes printed by find (line 15)
    results,  \* eom-viewer: the variable results once it is a list (lines 16-17)
    pc,       \* eom-viewer: the position of the script
    i,        \* eom-viewer: the loop index of enumerate (line 21)
    links,    \* eom-viewer: the directory links/, link name |-> target
    removed,  \* eom-viewer: how many entries the last rm * removed (history)
    lines,    \* report-parser: the parsed lines of logs/report.json
    pos,      \* report-parser: how many lines the loop has handled
    stdout,   \* report-parser: the strings written to sys.stdout
    rpc       \* report-parser: the position of the script

vars == <<v, ret, spc, out, results, pc, i, links, removed, lines, pos, stdout, rpc>>

sorterVars == <<v, ret, spc>>
viewerVars == <<out, results, pc, i, links, removed>>
reportVars == <<lines, pos, stdout, rpc>>

----------------------------------------------------------------------------
(* Bounds of the model.                                                    *)

MaxSegs == 4    \* sorter harness: at most this many '/'-separated segments
MaxFiles == 3   \* eom-viewer: at most this many files under image-cache/
MaxLines == 2   \* report-parser: at most this many lines in the log

----------------------------------------------------------------------------
(* Strings.                                                                *)

\* the code point of a character (Python compares str by code point)
Ord(c) ==
    CASE c = "\n" -> 10  [] c = " " -> 32  [] c = "-" -> 45  [] c = "/" -> 47
      [] c = "0" -> 48   [] c = "1" -> 49  [] c = "2" -> 50  [] c = "3" -> 51
      [] c = "4" -> 52   [] c = "5" -> 53  [] c = "6" -> 54  [] c = "7" -> 55
      [] c = "8" -> 56   [] c = "9" -> 57  [] c = ":" -> 58
      [] c = "a" -> 97   [] c = "b" -> 98  [] c = "c" -> 99  [] c = "d" -> 100
      [] c = "e" -> 101  [] c = "f" -> 102 [] c = "g" -> 103 [] c = "h" -> 104
      [] c = "i" -> 105  [] c = "l" -> 108 [] c = "m" -> 109 [] c = "o" -> 111
      [] c = "q" -> 113  [] c = "r" -> 114 [] c = "s" -> 115 [] c = "t" -> 116
      [] c = "w" -> 119  [] c = "x" -> 120 [] c = "z" -> 122

\* a < b for Python str: the first differing character decides, a proper
\* prefix is smaller
StrLess(a, b) ==
    \E k \in 1..(Len(b)) :
        /\ \A j \in 1..(k - 1) : j <= Len(a) /\ a[j] = b[j]
        /\ k - 1 <= Len(a)
        /\ \/ k = Len(a) + 1
           \/ k <= Len(a) /\ Ord(a[k]) < Ord(b[k])

\* str.startswith
StartsWith(s, p) == Len(s) >= Len(p) /\ SubSeq(s, 1, Len(p)) = p

\* str.split(sep) for a one-character sep: always at least one piece, empty
\* pieces kept
Split(s, sep) ==
    LET P == {k \in 1..Len(s) : s[k] = sep}
        n == Cardinality(P) + 1
        at(m) == CHOOSE k \in P : Cardinality({j \in P : j < k}) = m - 1
    IN  [m \in 1..n |->
            SubSeq(s, IF m = 1 THEN 1 ELSE at(m - 1) + 1,
                      IF m = n THEN Len(s) ELSE at(m) - 1)]

RECURSIVE Join(_, _)
\* sep.join(list)
Join(list, sep) ==
    IF list = <<>> THEN <<>>
    ELSE IF Len(list) = 1 THEN list[1]
    ELSE list[1] \o <<sep>> \o Join(Tail(list), sep)

\* list[a:b] for 0 <= a <= b (Python slices never raise)
Slice(list, a, b) ==
    SubSeq(list, a + 1, IF b < Len(list) THEN b ELSE Len(list))

----------------------------------------------------------------------------
(* sorter (eom-viewer.py lines 7-13).                                      *)

ImageCache == <<"i", "m", "a", "g", "e", "-", "c", "a", "c", "h", "e">>
Articles == <<"a", "r", "t", "i", "c", "l", "e", "s">>

\* the literal of line 8
ArticlesPrefix == ImageCache \o <<"/">> \o Articles

\* "image-cache/articles/%s/%s" % (msid, y), line 12
Format(msid, y) == ImageCache \o <<"/">> \o Articles \o <<"/">> \o msid \o <<"/">> \o y

Returned(key) == [kind |-> "key", key |-> key]
IndexError == [kind |-> "IndexError", key |-> <<>>]

\* sorter without the test of line 8
sorterNoPrefixTest(path) ==
    LET a == Split(path, "/")
    IN  IF Len(a) < 2 THEN IndexError
        ELSE LET b == Split(a[2], ":")
             IN  IF Len(b) < 2 THEN IndexError
                 ELSE Returned(Format(b[2], Join(Slice(a, 2, 3), "/")))

\* sorter taking everything after the first colon as the identifier
sorterRestAfterColon(path) ==
    IF StartsWith(path, ArticlesPrefix) THEN Returned(path)
    ELSE LET a == Split(path, "/")
         IN  IF Len(a) < 2 THEN IndexError
             ELSE LET b == Split(a[2], ":")
                  IN  IF Len(b) < 2 THEN IndexError
                      ELSE Returned(Format(Join(Tail(b), ":"),
                                           Join(Slice(a, 2, 3), "/")))

\* sorter indexing the third segment (v.split("/")[2]) instead of slicing
sorterIndexedSub(path) ==
    IF StartsWith(path, ArticlesPrefix) THEN Returned(path)
    ELSE LET a == Split(path, "/")
         IN  IF Len(a) < 2 THEN IndexError
             ELSE LET b == Split(a[2], ":")
                  IN  IF Len(b) < 2 \/ Len(a) < 3 THEN IndexError
                      ELSE Returned(Format(b[2], a[3]))

\* sorter taking two segments as the sub (v.split("/")[2:4])
sorterWideSub(path) ==
    IF StartsWith(path, ArticlesPrefix) THEN Returned(path)
    ELSE LET a == Split(path, "/")
         IN  IF Len(a) < 2 THEN IndexError
             ELSE LET b == Split(a[2], ":")
                  IN  IF Len(b) < 2 THEN IndexError
                      ELSE Returned(Format(b[2], Join(Slice(a, 2, 4), "/")))

\* the outcome of sorter(path): the key it returns, or the IndexError that
\* v.split('/')[1] or .split(':')[1] raises
sorter(path) ==
    IF StartsWith(path, ArticlesPrefix) THEN Returned(path)
    ELSE LET a == Split(path, "/")
         IN  IF Len(a) < 2 THEN IndexError
             ELSE LET b == Split(a[2], ":")
                  IN  IF Len(b) < 2 THEN IndexError
                      ELSE LET msid == b[2]
                               y == Join(Slice(a, 2, 3), "/")
                           IN  Returned(Format(msid, y))

----------------------------------------------------------------------------
(* The sorter harness: sorter applied to one path.                         *)

\* the segments the paths of the harness are made of
SegVocab ==
    { ImageCache, Articles, Articles \o <<":", "7">>,
      <<"c", ":", "1", "2">>, <<"c", ":", "1", "2", ":", "3", "4">>,
      <<"b">>, <<>> }

HarnessPaths ==
    { Join(f, "/") : f \in UNION { [1..k -> SegVocab] : k \in 1..MaxSegs } }

SorterCall ==
    /\ spc = "call"
    /\ ret' = sorter(v)
    /\ spc' = "returned"
    /\ UNCHANGED <<v, viewerVars, reportVars>>

----------------------------------------------------------------------------
(* eom-viewer.py, lines 15-23.                                             *)

\* the files that may exist under image-cache/
FooBarBaz == ImageCache \o <<"/", "f", "o", "o", ":", "1", "2", "3", "/", "b", "a", "r", "/", "b", "a", "z">>
Art123Bar == ArticlesPrefix \o <<"/", "1", "2", "3", "/", "b", "a", "r">>
Art12Z == ArticlesPrefix \o <<"/", "1", "2", "/", "z">>
TopLevelX == ImageCache \o <<"/", "x">>
SpacedDir == ImageCache \o <<"/", "a", ":", "1", "/", "b", " ", "c", "/", "d", ":", "2">>

FileUniverse == {FooBarBaz, Art123Bar, Art12Z, TopLevelX, SpacedDir}

\* find walks depth first: the files below one directory are listed together,
\* the order inside a directory is the file system's
FindConsistent(list) ==
    \A a, b, c \in 1..Len(list) :
        a < b /\ b < c =>
            LET sa == Split(list[a], "/")
                sb == Split(list[b], "/")
                sc == Split(list[c], "/")
            IN  \A d \in 1..(Len(sa) - 1) :
                    (Len(sc) > d /\ SubSeq(sa, 1, d) = SubSeq(sc, 1, d))
                        => (Len(sb) > d /\ SubSeq(sb, 1, d) = SubSeq(sa, 1, d))

\* what find may list: the files of the tree, each once
FindListings ==
    { f \in UNION { [1..k -> FileUniverse] : k \in 0..MaxFiles } :
        /\ \A a, b \in 1..Len(f) : a # b => f[a] # f[b]
        /\ FindConsistent(f) }

RECURSIVE FindOutput(_)
\* the bytes find prints: every path followed by a newline
FindOutput(list) ==
    IF list = <<>> THEN <<>>
    ELSE list[1] \o <<"\n">> \o FindOutput(Tail(list))

IsSpace(c) == c \in {" ", "\n"}

\* bytes.split() without argument: the maximal runs of non-whitespace
SplitWs(s) ==
    LET B == {k \in 1..Len(s) : ~IsSpace(s[k]) /\ (k = 1 \/ IsSpace(s[k - 1]))}
        begin(m) == CHOOSE k \in B : Cardinality({j \in B : j < k}) = m - 1
        stop(k) == CHOOSE e \in k..Len(s) :
                       /\ \A j \in k..e : ~IsSpace(s[j])
                       /\ (e = Len(s) \/ IsSpace(s[e + 1]))
    IN  [m \in 1..Cardinality(B) |-> SubSeq(s, begin(m), stop(begin(m)))]

KeyLess(x, y) == StrLess(sorter(x).key, sorter(y).key)

\* an insertion that puts x before the elements whose key equals its own
InsertBeforeEqual(x, s) ==
    LET P == {k \in 1..Len(s) : ~KeyLess(s[k], x)}
        p == IF P = {} THEN Len(s) + 1 ELSE CHOOSE k \in P : \A j \in P : k <= j
    IN  SubSeq(s, 1, p - 1) \o <<x>> \o SubSeq(s, p, Len(s))

\* x, which came after every element of the sorted list s in the input, goes
\* before the first element whose key is greater: equal keys keep input order
Insert(x, s) ==
    LET P == {k \in 1..Len(s) : KeyLess(x, s[k])}
        p == IF P = {} THEN Len(s) + 1 ELSE CHOOSE k \in P : \A j \in P : k <= j
    IN  SubSeq(s, 1, p - 1) \o <<x>> \o SubSeq(s, p, Len(s))

RECURSIVE SortPrefix(_, _)
SortPrefix(list, n) ==
    IF n = 0 THEN <<>> ELSE Insert(list[n], SortPrefix(list, n - 1))

\* sorted(list, key=sorter): the exception of the first key that fails, or
\* the list in ascending order of key, stable
sorted(list) ==
    IF \E k \in 1..Len(list) : sorter(list[k]).kind # "key"
    THEN [kind |-> "IndexError", list |-> <<>>]
    ELSE [kind |-> "list", list |-> SortPrefix(list, Len(list))]

Digit(d) ==
    CASE d = 0 -> "0" [] d = 1 -> "1" [] d = 2 -> "2" [] d = 3 -> "3" [] d = 4 -> "4"
      [] d = 5 -> "5" [] d = 6 -> "6" [] d = 7 -> "7" [] d = 8 -> "8" [] d = 9 -> "9"

RECURSIVE DecStr(_)
\* str(n) / "%s" % n for an int n >= 0
DecStr(n) == IF n < 10 THEN <<Digit(n)>> ELSE DecStr(n \div 10) \o <<Digit(n % 10)>>

\* the directory the script runs in
Cwd == <<"/", "w">>

\* os.path.abspath for paths without . and .. segments: relative paths are
\* joined to the working directory, empty segments are dropped
abspath(path) ==
    LET full == IF StartsWith(path, <<"/">>) THEN path ELSE Cwd \o <<"/">> \o path
    IN  <<"/">> \o Join(SelectSeq(Split(full, "/"), LAMBDA seg : seg # <<>>), "/")

\* ln -s target name inside links/: fails when name exists
Ln(dir, target, name) ==
    IF name \in DOMAIN dir THEN dir ELSE dir @@ (name :> target)

NoLinks == [n \in {} |-> <<>>]

\* line 15: find image-cache/ -type f
Find ==
    /\ pc = "find"
    /\ \E f \in FindListings : out' = FindOutput(f)
    /\ pc' = "split"
    /\ UNCHANGED <<results, i, links, removed, sorterVars, reportVars>>

\* line 16: results.split(), each piece decoded
SplitDecode ==
    /\ pc = "split"
    /\ results' = SplitWs(out)
    /\ pc' = "sort"
    /\ UNCHANGED <<out, i, links, removed, sorterVars, reportVars>>

\* line 17: results = sorted(results, key=sorter); an exception ends the run
Sort ==
    /\ pc = "sort"
    /\ LET s == sorted(results)
       IN  IF s.kind = "list"
           THEN results' = s.list /\ pc' = "clear"
           ELSE results' = results /\ pc' = "crashed"
    /\ UNCHANGED <<out, i, links, removed, sorterVars, reportVars>>

\* line 19 without the rm
ClearWithoutRm ==
    /\ pc = "clear"
    /\ removed' = 0
    /\ i' = 0
    /\ pc' = "link"
    /\ UNCHANGED <<out, results, links, sorterVars, reportVars>>

\* line 19: mkdir -p links && cd links && rm *
Clear ==
    /\ pc = "clear"
    /\ removed' = Cardinality(DOMAIN links)
    /\ links' = NoLinks
    /\ i' = 0
    /\ pc' = "link"
    /\ UNCHANGED <<out, results, sorterVars, reportVars>>

\* a loop body that takes the row off the list it walks
LinkConsuming ==
    /\ pc = "link"
    /\ results # <<>>
    /\ links' = Ln(links, abspath(results[1]), DecStr(i))
    /\ results' = Tail(results)
    /\ i' = i + 1
    /\ UNCHANGED <<out, pc, removed, sorterVars, reportVars>>

\* lines 21-23, one iteration: ln -s abspath(row) i
Link ==
    /\ pc = "link"
    /\ i < Len(results)
    /\ links' = Ln(links, abspath(results[i + 1]), DecStr(i))
    /\ i' = i + 1
    /\ UNCHANGED <<out, results, pc, removed, sorterVars, reportVars>>

\* the loop of line 21 is exhausted: the script ends
Finish ==
    /\ pc = "link"
    /\ i = Len(results)
    /\ pc' = "done"
    /\ UNCHANGED <<out, results, i, links, removed, sorterVars, reportVars>>

\* the script is started again; links/ is what the last run left
Rerun ==
    /\ pc \in {"done", "crashed"}
    /\ pc' = "find"
    /\ out' = <<>>
    /\ results' = <<>>
    /\ i' = 0
    /\ UNCHANGED <<links, removed, sorterVars, reportVars>>

ViewerNext == Find \/ SplitDecode \/ Sort \/ Clear \/ Link \/ Finish \/ Rerun

----------------------------------------------------------------------------
(* report-parser.py.                                                       *)

\* float(pae) >= 0.9 (line 8), in hundredths
Threshold == 90

IsDigit(c) == c \in {"0", "1", "2", "3", "4", "5", "6", "7", "8", "9"}
DigitVal(c) == CHOOSE d \in 0..9 : Digit(d) = c

RECURSIVE IntOf(_)
\* the value of a string of digits
IntOf(ds) ==
    IF ds = <<>> THEN 0
    ELSE IntOf(SubSeq(ds, 1, Len(ds) - 1)) * 10 + DigitVal(ds[Len(ds)])

\* JSON values: null, a number (in hundredths), a string
Null == [t |-> "null", n |-> 0, s |-> <<>>]
Num(n) == [t |-> "num", n |-> n, s |-> <<>>]
Str(s) == [t |-> "str", n |-> 0, s |-> s]
\* the key is not in the object
Absent == [t |-> "absent", n |-> 0, s |-> <<>>]

ValueError == [kind |-> "ValueError", n |-> 0]

\* float(x) for a JSON number or a string of the form digits[.digits], in
\* hundredths (rounded down); any other string raises ValueError
float(x) ==
    IF x.t = "num" THEN [kind |-> "float", n |-> x.n]
    ELSE LET parts == Split(x.s, ".")
             whole == parts[1]
             frac == IF Len(parts) = 2 THEN parts[2] ELSE <<>>
             f2 == SubSeq(frac \o <<"0", "0">>, 1, 2)
         IN  IF /\ x.t = "str"
                /\ Len(parts) <= 2
                /\ \A k \in 1..Len(whole) : IsDigit(whole[k])
                /\ \A k \in 1..Len(frac) : IsDigit(frac[k])
                /\ Len(whole) + Len(frac) >= 1
             THEN [kind |-> "float", n |-> IntOf(whole) * 100 + IntOf(f2)]
             ELSE ValueError

\* the truth value Python gives a JSON value
Truthy(x) ==
    CASE x.t = "null" -> FALSE
      [] x.t = "num" -> x.n # 0
      [] x.t = "str" -> x.s # <<>>

\* str(x) for a JSON string or a JSON integer >= 0
str(x) == IF x.t = "str" THEN x.s ELSE DecStr(x.n)

\* the test written with > in place of >=
AtThresholdStrict(f) == f.n > Threshold

\* float(result_line["pae"]) >= 0.9
AtThreshold(f) == f.n >= Threshold

PaeVals ==
    { Absent, Null, Num(0), Num(89), Num(90), Num(91),
      Str(<<>>), Str(<<"0", ".", "9">>), Str(<<"0", ".", "8", "9">>), Str(<<"1">>),
      Str(<<"a", "b", "c">>) }

\* "article-id" may be missing, a string or an integer (str() renders it)
IdVals == { Absent, Str(<<"0", "7">>), Num(12) }

\* a line of the log: text json.loads rejects, an object without "message",
\* or an object whose message holds pae and article-id
BadLine == [kind |-> "bad", pae |-> Absent, id |-> Absent]
NoMessage == [kind |-> "nomessage", pae |-> Absent, id |-> Absent]
LineVals ==
    {BadLine, NoMessage} \cup [kind : {"ok"}, pae : PaeVals, id : IdVals]

\* what lines 6-10 do with one line: "skip", "write", or the exception raised
Handle(line) ==
    IF line.kind = "bad" THEN "JSONDecodeError"
    ELSE IF line.kind = "nomessage" THEN "KeyError"
    ELSE IF line.pae.t = "absent" THEN "skip"
    ELSE IF ~Truthy(line.pae) THEN "skip"
    ELSE IF float(line.pae).kind # "float" THEN "ValueError"
    ELSE IF ~AtThreshold(float(line.pae)) THEN "skip"
    ELSE IF line.id.t = "absent" THEN "KeyError"
    ELSE "write"

\* lines 5-10, one iteration of the loop
Step ==
    /\ rpc = "loop"
    /\ pos < Len(lines)
    /\ LET line == lines[pos + 1]
           h == Handle(line)
       IN  /\ stdout' = IF h = "write" THEN stdout \o <<str(line.id), <<" ">>>> ELSE stdout
           /\ IF h \in {"skip", "write"}
              THEN pos' = pos + 1 /\ rpc' = "loop"
              ELSE pos' = pos /\ rpc' = "crashed"
    /\ UNCHANGED <<lines, sorterVars, viewerVars>>

\* readlines() is exhausted
Exit ==
    /\ rpc = "loop"
    /\ pos = Len(lines)
    /\ rpc' = "done"
    /\ UNCHANGED <<lines, pos, stdout, sorterVars, viewerVars>>

ReportNext == Step \/ Exit

----------------------------------------------------------------------------
(* Specifications.                                                         *)

\* the harness calls sorter on any one path
SorterInit ==
    /\ v \in HarnessPaths
    /\ ret = IndexError
    /\ spc = "call"
    /\ out = <<>> /\ results = <<>> /\ pc = "idle" /\ i = 0
    /\ links = NoLinks /\ removed = 0
    /\ lines = <<>> /\ pos = 0 /\ stdout = <<>> /\ rpc = "idle"

SorterNext == SorterCall

\* sorter applied to one path
SpecSorter == SorterInit /\ [][SorterNext]_vars

\* eom-viewer.py is started for the first time: links/ does not exist yet
ViewerInit ==
    /\ out = <<>> /\ results = <<>> /\ pc = "find" /\ i = 0
    /\ links = NoLinks /\ removed = 0
    /\ v = <<>> /\ ret = IndexError /\ spc = "idle"
    /\ lines = <<>> /\ pos = 0 /\ stdout = <<>> /\ rpc = "idle"

\* runs of eom-viewer.py, one after the other
Spec == ViewerInit /\ [][ViewerNext]_vars

\* lines 4-5: the log is opened and read whole
ReportInit ==
    /\ lines \in UNION { [1..k -> LineVals] : k \in 0..MaxLines }
    /\ pos = 0 /\ stdout = <<>> /\ rpc = "loop"
    /\ v = <<>> /\ ret = IndexError /\ spc = "idle"
    /\ out = <<>> /\ results = <<>> /\ pc = "idle" /\ i = 0
    /\ links = NoLinks /\ removed = 0

\* one run of report-parser.py
SpecReport == ReportInit /\ [][ReportNext]_vars

----------------------------------------------------------------------------
(* What the claims speak of.                                               *)

Segs(path) == Split(path, "/")
Colons(seg) == {k \in 1..Len(seg) : seg[k] = ":"}
FirstColon(seg) == CHOOSE k \in Colons(seg) : \A j \in Colons(seg) : k <= j

\* <root>/<collection>:<ID>/<sub>/<rest...>
HasShape(path) == Len(Segs(path)) >= 3 /\ Colons(Segs(path)[2]) # {}

\* the whole of the segment after its first colon
AfterFirstColon(seg) == SubSeq(seg, FirstColon(seg) + 1, Len(seg))

\* the part of the segment after its first colon, up to the next colon
UpToNextColon(seg) ==
    LET rest == AfterFirstColon(seg)
        stop == {k \in 1..Len(rest) : rest[k] = ":"}
    IN  IF stop = {} THEN rest
        ELSE SubSeq(rest, 1, (CHOOSE k \in stop : \A j \in stop : k <= j) - 1)

\* "image-cache/articles/<ID>/<sub>"
RemappedKey(id, sub) ==
    ArticlesPrefix \o <<"/">> \o id \o <<"/">> \o sub

\* the files find listed, one per line of its output
FilesFound ==
    LET all == Split(out, "\n")
    IN  SubSeq(all, 1, Len(all) - 1)

LinkNames(n) == {DecStr(k) : k \in 0..(n - 1)}

RECURSIVE Printed(_, _, _)
\* what the first n lines print when a line prints if its pae is at least
\* bar; pae absent, null, empty or not a number counts as below every bar
Printed(ls, n, bar) ==
    IF n = 0 THEN <<>>
    ELSE LET line == ls[n]
             f == IF line.pae.t \in {"num", "str"} /\ line.pae # Str(<<>>)
                  THEN float(line.pae) ELSE ValueError
         IN  Printed(ls, n - 1, bar)
                 \o (IF f.kind = "float" /\ f.n >= bar
                     THEN <<str(line.id), <<" ">>>> ELSE <<>>)

----------------------------------------------------------------------------
(* Claims about sorter, under SpecSorter.                                  *)

\* C1 as stated: for every path <root>/<collection>:<ID>/<sub>/<rest...>,
\* whatever the root, collection and ID, sorter returns
\* "image-cache/articles/<ID>/<sub>", ID being what follows the first colon.
C1_AnyShapedPathIsRemapped ==
    (spc = "returned" /\ HasShape(v)) =>
        ret = Returned(RemappedKey(AfterFirstColon(Segs(v)[2]), Segs(v)[3]))

\* C1 as amended: for every path <root>/<collection>:<ID>/<sub>/<rest...> that
\* does not begin with "image-cache/articles" and whose second segment holds
\* exactly one colon, sorter returns exactly "image-cache/articles/<ID>/<sub>".
C1_ShapedPathIsRemapped ==
    ( /\ spc = "returned"
      /\ HasShape(v)
      /\ ~StartsWith(v, ArticlesPrefix)
      /\ Cardinality(Colons(Segs(v)[2])) = 1 ) =>
        ret = Returned(RemappedKey(AfterFirstColon(Segs(v)[2]), Segs(v)[3]))

\* a four-segment path of the second naming convention has been keyed
C1_Witness ==
    /\ spc = "returned"
    /\ v = Join(<<ImageCache, <<"c", ":", "1", "2">>, <<"b">>, <<"b">>>>, "/")
    /\ ret.kind = "key"

\* C2: for every path that begins with "image-cache/articles", sorter returns
\* the path itself, unchanged.
C2_PrefixedPathIsItsOwnKey ==
    (spc = "returned" /\ StartsWith(v, ArticlesPrefix)) => ret = Returned(v)

\* a path longer than the literal prefix has been keyed
C2_Witness ==
    /\ spc = "returned"
    /\ StartsWith(v, ArticlesPrefix)
    /\ Len(Segs(v)) = 4
    /\ ret.kind = "key"

\* C3: for every malformed path (neither beginning with the literal prefix
\* nor of the shape <root>/<collection>:<ID>/<sub>/...), sorter ends in
\* MalformedPathError and never in an unrelated internal error.
C3_MalformedPathRaisesNamedError ==
    (spc = "returned" /\ ~StartsWith(v, ArticlesPrefix) /\ ~HasShape(v)) =>
        ret.kind = "MalformedPathError"

\* C8 as stated: for a path not starting with "image-cache/articles", the
\* identifier in the key is the whole of the second segment after its first
\* colon, also when the segment holds more than one colon.
C8_IdentifierIsAllAfterFirstColon ==
    (spc = "returned" /\ ~StartsWith(v, ArticlesPrefix) /\ ret.kind = "key") =>
        StartsWith(ret.key,
                   RemappedKey(AfterFirstColon(Segs(v)[2]), <<>>))

\* C8 as amended: for a path not starting with "image-cache/articles", the
\* identifier in the key is the part of the second segment between its first
\* colon and its next colon (or its end when there is no other colon).
C8_IdentifierEndsAtNextColon ==
    (spc = "returned" /\ ~StartsWith(v, ArticlesPrefix) /\ ret.kind = "key") =>
        /\ Len(Segs(v)) >= 2 /\ Colons(Segs(v)[2]) # {}
        /\ StartsWith(ret.key,
                      RemappedKey(UpToNextColon(Segs(v)[2]), <<>>))

\* a path whose second segment is "c:12:34" has been keyed
C8_Witness ==
    /\ spc = "returned"
    /\ Len(Segs(v)) >= 3
    /\ Segs(v)[2] = <<"c", ":", "1", "2", ":", "3", "4">>
    /\ ~StartsWith(v, ArticlesPrefix)
    /\ ret.kind = "key"

----------------------------------------------------------------------------
(* Claims about eom-viewer.py, under Spec.                                 *)

\* C4: after a run over n found files there is exactly one link per file, the
\* links are named 0..n-1, link i points to the absolute path of the i-th
\* file of the list sorted ascending by sorter key, so the keys of the
\* targets ascend with the link number.
C4_OneLinkPerFileInKeyOrder ==
    pc = "done" =>
        LET s == sorted(FilesFound)
        IN  /\ s.kind = "list"
            /\ DOMAIN links = LinkNames(Len(FilesFound))
            /\ \A k \in 1..Len(FilesFound) :
                   links[DecStr(k - 1)] = abspath(s.list[k])
            /\ \A a, b \in 1..Len(FilesFound) :
                   a < b => ~KeyLess(s.list[b], s.list[a])

\* C5: when two paths of the scanned list have the same key, their order in
\* the sorted list, and the order of their link numbers, is their order in
\* the scanned list.
C5_EqualKeysKeepInputOrder ==
    LET scanned == SplitWs(out)
    IN  \A a, b \in 1..Len(scanned) :
            ( /\ a < b
              /\ scanned[a] # scanned[b]
              /\ sorter(scanned[a]) = sorter(scanned[b]) ) =>
                /\ pc \in {"clear", "link", "done"} =>
                       \E p, q \in 1..Len(results) :
                           p < q /\ results[p] = scanned[a] /\ results[q] = scanned[b]
                /\ pc = "done" =>
                       \E p, q \in 1..Len(results) :
                           /\ p < q
                           /\ links[DecStr(p - 1)] = abspath(scanned[a])
                           /\ links[DecStr(q - 1)] = abspath(scanned[b])

\* the example of the specification has been sorted and linked
C5_Witness ==
    /\ pc = "done"
    /\ SplitWs(out) = <<FooBarBaz, Art123Bar>>
    /\ sorter(FooBarBaz) = sorter(Art123Bar)

\* C7: a link is created only when the scan and the sort of its whole result
\* are complete, and the list of paths does not change once linking has begun.
C7_ScanAndSortCompleteBeforeLinking ==
    [][ /\ (links' # links /\ links' # NoLinks) =>
               /\ pc = "link"
               /\ sorted(SplitWs(out)) = [kind |-> "list", list |-> results]
               /\ out' = out
        /\ pc = "link" => results' = results ]_vars

\* the second of several links has been created
C7_Witness == pc = "link" /\ i = 2 /\ Len(results) = 3 /\ DOMAIN links = LinkNames(2)

\* C10: links/ is emptied after the scan and before the first link, so while
\* links are created and after the run links/ holds exactly the links made so
\* far by this run, and after the run exactly the links 0..n-1, none stale.
C10_OnlyLinksOfLatestRun ==
    pc \in {"link", "done"} =>
        /\ DOMAIN links = LinkNames(i)
        /\ \A k \in 1..i : links[DecStr(k - 1)] = abspath(results[k])
        /\ pc = "done" => i = Len(results)

\* a run has ended with fewer links than the run before it had left
C10_Witness == pc = "done" /\ removed > Len(results) /\ Len(results) > 0

----------------------------------------------------------------------------
(* Claims about report-parser.py, under SpecReport.                        *)

\* C6 as stated: the article-id of a line is printed, in the order of the
\* lines, if and only if the line's pae is strictly greater than 0.9.
C6_PrintsIffPaeAboveThreshold ==
    stdout = Printed(lines, pos, Threshold + 1)

\* C6 as amended: the article-id of a line is printed, in the order of the
\* lines, if and only if the line's pae is at least 0.9 (0.9 itself
\* included); lines whose pae is absent, empty or below 0.9 print nothing.
C6_PrintsIffPaeAtLeastThreshold ==
    stdout = Printed(lines, pos, Threshold)

\* a line whose pae is exactly 0.9 has been printed
C6_Witness ==
    /\ rpc = "done"
    /\ Len(lines) = 2
    /\ lines[1].pae = Num(90)
    /\ lines[2].pae = Str(<<"0", ".", "8", "9">>)
    /\ stdout = <<str(lines[1].id), <<" ">>>>
====
